---- MODULE Spec2Model ----
(***************************************************************************)
(* Control loop of the agent (core/agent.py), the tool registry            *)
(* (tools/tool_registry.py) and the model client it talks to               *)
(* (llm/azure_openai_client.py), as a state machine.                       *)
(*                                                                         *)
(* Two threads are modelled: the thread that runs Agent.start (and the     *)
(* loop it calls) and the thread that calls Agent.stop.  Time is a         *)
(* counter advanced by Tick.  Every call that leaves agent.py (a tool, the *)
(* model client, the planner, the memory object, the checklist file) may   *)
(* return or raise; a tool may also stay in its call for any time.         *)
(***************************************************************************)
EXTENDS Integers, Sequences, FiniteSets, TLC

\* ---------------------------------------------------------------- bounds
MaxIterBound == 2       \* largest CONFIG["agent_loop"]["max_iterations"] explored
SummarizeEvery == 2     \* the auto_summarize_threshold explored besides 0
max_time_seconds == 1   \* CONFIG["agent_loop"]["max_time_seconds"], scaled
tool_timeout_seconds == 1  \* CONFIG["agent_loop"]["tool_timeout_seconds"], scaled
MaxClock == 2           \* the clock stops advancing here
MaxStops == 2           \* calls of stop() explored
MaxFaults == 1          \* calls of collaborators that raise, per run
MaxLen == 6             \* longest response text (in tokens) of SpecExtract
LongRun == 5            \* max_iterations of SpecLong
CadenceRun == 4         \* max_iterations of SpecCadence
CompactRun == 7         \* max_iterations of SpecCompact
MaxRuns == 2            \* runs per session of SpecSessions
MaxPlanLen == 3         \* longest plan (in lines) of SpecChecklist
MaxTasks == 2           \* tasks sent under one session_id in SpecServer
MaxQuestions == 2       \* calls of message_ask_user in SpecServer
MaxResponses == 2       \* responses the user submits in SpecServer

\* ------------------------------------------------------- program constants
KeepTail == 10          \* events[-10:] / len(events) < 10

\* ------------------------------------------------------------ vocabulary
NOTIFY == "message_notify_user"
SEARCH == "info_search_web"
BOGUS == "no_such_tool"
IDLE == "idle"

\* ToolRegistry.tools: the names registered by the callers of Agent
RegisteredTools == {NOTIFY, SEARCH}

\* A response text is a sequence of tokens, each a fixed piece of text:
\*   FJ  ```json              F   ```
\*   LB  {                    RB  }
\*   PO  "parameters": {      PB  "parameters": "text"
\*   a name n: "name": "n"    TXT prose that is no JSON
\* (members are separated by commas where JSON wants them)
NameTok == {IDLE, SEARCH, BOGUS}
JsonTok == {"LB", "PO", "RB", "PB"} \cup NameTok
Token == {"FJ", "F", "TXT"} \cup JsonTok
Opening == {"LB", "PO"}

NoCall == [name |-> "-", params |-> "-"]

SubSeqOf(s, i, j) == SubSeq(s, i, j)
First(S) == CHOOSE i \in S : \A j \in S : i <= j
Last(S) == CHOOSE i \in S : \A j \in S : j <= i

\* number of { minus number of } among the first k tokens of g
Depth(g, k) ==
    Cardinality({i \in 1..k : g[i] \in Opening}) - Cardinality({i \in 1..k : g[i] = "RB"})

\* json.loads(g) succeeds: g is one well-formed object
JsonLoads(g) ==
    /\ Len(g) >= 2
    /\ g[1] = "LB"
    /\ \A i \in 1..Len(g) : g[i] \in JsonTok
    /\ \A i \in 2..Len(g) : g[i] # "LB"
    /\ \A k \in 1..(Len(g) - 1) : Depth(g, k) >= 1
    /\ Depth(g, Len(g)) = 0

\* positions of the "name" and "parameters" members of the top-level object
TopNames(g) == {i \in 1..Len(g) : g[i] \in NameTok /\ Depth(g, i) = 1}
TopParams(g) ==
    {i \in 1..Len(g) : \/ g[i] = "PB" /\ Depth(g, i) = 1
                       \/ g[i] = "PO" /\ Depth(g, i) = 2}

\* the dict json.loads returns (a repeated key keeps its last value), as far
\* as the loop reads it: data["name"] and data.get("parameters", {})
ParsedCall(g) ==
    [name |-> g[Last(TopNames(g))],
     params |-> IF TopParams(g) = {} THEN "dict"
                ELSE IF g[Last(TopParams(g))] = "PB" THEN "bad" ELSE "dict"]

\* re.search(r"```json\s*(\{.*?\})\s*```", text, re.DOTALL): the match starts
\* at the leftmost ```json that is followed by { and, later, by a } followed
\* by ```; the group ends at the first such }. The closing ``` may be the
\* first characters of another ```json.
FenceEnds(s, i) ==
    {j \in (i + 2)..(Len(s) - 1) : s[j] = "RB" /\ s[j + 1] \in {"F", "FJ"}}
FenceStarts(s) ==
    {i \in 1..(Len(s) - 1) : s[i] = "FJ" /\ s[i + 1] = "LB" /\ FenceEnds(s, i) # {}}

code_fence_match(s) == FenceStarts(s) # {}
FenceGroup(s) ==
    LET i == First(FenceStarts(s)) IN SubSeqOf(s, i + 1, First(FenceEnds(s, i)))

\* re.search(r"(\{.*\})", text, re.DOTALL): from the first { of the text (the
\* one that ends a PO included) to the last }
Braces(s, T) == {i \in 1..Len(s) : s[i] \in T}
bracket_match(s) ==
    /\ Braces(s, Opening) # {} /\ Braces(s, {"RB"}) # {}
    /\ First(Braces(s, Opening)) < Last(Braces(s, {"RB"}))
BracketGroup(s) ==
    LET i == First(Braces(s, Opening))
        j == Last(Braces(s, {"RB"}))
    IN <<"LB">> \o SubSeqOf(s, i + 1, j)

\* Agent._extract_tool_call on a str
HasRawJson(s) == code_fence_match(s) \/ bracket_match(s)
RawJson_BracketFirst(s) ==
    IF bracket_match(s) THEN BracketGroup(s) ELSE FenceGroup(s)
RawJson(s) == IF code_fence_match(s) THEN FenceGroup(s) ELSE BracketGroup(s)
ExtractOf(raw) ==
    IF JsonLoads(raw) /\ TopNames(raw) # {} THEN ParsedCall(raw) ELSE NoCall
_extract_tool_call(s) ==
    IF HasRawJson(s) THEN ExtractOf(RawJson(s)) ELSE NoCall


\* ------------------------------------------------------------------ state
VARIABLES
    max_iter,                  \* CONFIG["agent_loop"]["max_iterations"]
    auto_summarize_threshold,  \* CONFIG["agent_loop"]["auto_summarize_threshold"]
    clientKind,                \* which llm_client the Agent was given
    is_running, start_time, iterations, last_summary_iteration,  \* Agent fields
    events,                    \* self.context: the event log
    iteration_count, response, tool_call,   \* locals of _agent_loop
    pc,                        \* where the thread running start() is
    sp, stopCalls,             \* where the thread calling stop() is; calls made
    now, callStart,            \* the clock; when the tool call in progress began
    outcome,                   \* what the last call of line 192 did
    notes,                     \* texts message_notify_user delivered in this run
    dispatched,                \* tool handlers invoked by line 192 in this run
    memUpdates,                \* memory.update_from_observation calls in this run
    seen,                      \* what has happened in this run (history)
    faults,                    \* collaborator calls that raised in this run
    stopIter, afterStop,       \* iteration in progress when stop() cleared
                               \* is_running; tool calls that returned since
    crashSite,                 \* where the exception that left start() was raised
    files,                     \* the file system: what each path holds
    active_agents,             \* api_server.active_agents: session_id -> Agent
    threads,                   \* the Agents run_agent created for one session_id,
                               \* each with the thread that runs its start()
    registered,                \* which of them active_agents[session_id] is
    session_queue,             \* questions put on active_sessions[session_id]
    user_response_queue,       \* user_response_queues[session_id]
    getters,                   \* response_queue.get() calls waiting on the server's loop
    ask,                       \* the call of message_ask_handler in progress
    submittedAt,               \* per response: the questions put before it was submitted
    answers                    \* what message_ask_handler returned, per question

vars == <<max_iter, auto_summarize_threshold, clientKind, is_running, start_time,
          iterations, last_summary_iteration, events, iteration_count, response,
          tool_call, pc, sp, stopCalls, now, callStart, outcome, notes, dispatched,
          memUpdates, seen, faults, stopIter, afterStop, crashSite, files,
          active_agents, threads, registered, session_queue, user_response_queue,
          getters, ask, submittedAt, answers>>

config == <<max_iter, auto_summarize_threshold, clientKind>>
agentFields == <<is_running, start_time, iterations, last_summary_iteration>>
locals == <<iteration_count, response, tool_call>>
stopper == <<sp, stopCalls>>
stopHist == <<stopIter, afterStop>>
server == <<threads, registered, session_queue, user_response_queue, getters, ask,
           submittedAt, answers>>
\* api_server before any task of the session: no Agent, empty queues
NoAsk == [q |-> 0, by |-> 0, at |-> "idle", loop |-> "-", got |-> 0]
InitServer ==
    /\ threads = <<>>
    /\ registered = 0
    /\ session_queue = {}
    /\ user_response_queue = <<>>
    /\ getters = <<>>
    /\ ask = NoAsk
    /\ submittedAt = <<>>
    /\ answers = <<>>

\* ----------------------------------------------------------------- events
Ev(type, tool, kind) == [type |-> type, tool |-> tool, kind |-> kind]
MessageEv == Ev("Message", "-", "content")
PlanEv == Ev("Plan", "-", "content")
SummaryEv == Ev("Summary", "-", "content")
ActionEv(name) == Ev("Action", name, "content")
\* {"type": "Observation", "content": "ツール呼び出し抽出に失敗"}
ExtractFailEv == Ev("Observation", "-", "content")
ResultEv_Untagged(name) == Ev("Observation", "-", "content")
ResultEv(name) == Ev("Observation", name, "content")
\* {"type": "Observation", "tool": name, "error": str(e)}: no "content" key
ErrorEv(name) == Ev("Observation", name, "error")

\* Context.add_event
add_event(log, ev) == Append(log, ev)

NoText == <<>>
TextResponse(s) == [kind |-> "str", text |-> s]
ParsedResponse == [kind |-> "parsed", text |-> NoText]

\* The responses the model backend gives in the loop
Responses ==
    { <<"FJ", "LB", SEARCH, "RB", "F">>,     \* a fenced call of a registered tool
      <<"TXT", "LB", IDLE, "RB">>,           \* a bare idle call
      <<"LB", BOGUS, "PO", "RB", "RB">>,     \* a call of a tool nobody registered
      <<"LB", IDLE, "PB", "RB">>,            \* idle with parameters that are no object
      <<"LB", SEARCH, "PB", "RB">>,          \* a tool with parameters that are no object
      <<"TXT">> }                            \* no JSON at all

\* ------------------------------------------------- the checklist file
\* A plan text is a sequence of lines; a line is one of
\*   "1." .. "4."  a numbered step ("n. text")     "goal"  "目標: ..."
\*   "#"           a heading                       "blank" an empty line
\*   "prose"       any other text
StepLines == {"1.", "2.", "3.", "4."}
NoStepLines == {"goal", "#", "blank"}
PlanLine == StepLines \cup NoStepLines \cup {"prose"}

\* what a path holds: nothing, or a checklist (its goal line, its items)
NoFile == [exists |-> FALSE, goal |-> FALSE, items |-> <<>>]
Item(text) == [text |-> text, done |-> FALSE]

\* Agent._create_todo_from_plan: the content written to todo_file
NumberedSteps(plan) == SelectSeq(plan, LAMBDA l : l \in StepLines)
FallbackSteps(plan) == SelectSeq(plan, LAMBDA l : l \notin NoStepLines)
steps_FallbackAlways(plan) == FallbackSteps(plan)
steps(plan) ==
    IF NumberedSteps(plan) # <<>> THEN NumberedSteps(plan) ELSE FallbackSteps(plan)
_create_todo_from_plan(plan) ==
    [exists |-> TRUE,
     goal |-> \E i \in 1..Len(plan) : plan[i] = "goal",
     items |-> [i \in 1..Len(steps(plan)) |-> Item(steps(plan)[i])]]

\* os.path.join(CONFIG["system"]["workspace_dir"], CONFIG["memory"]["todo_file"]):
\* the same path whichever session the Agent belongs to
todo_file(session_id) == <<"workspace", "todo.md">>
\* api_server.create_agent: the workspace_dir given to the session's Memory
workspace_dir(session_id) == <<"workspace", session_id>>

Sessions == {"s1", "s2"}
Paths == {todo_file(s) : s \in Sessions} \cup
         {workspace_dir(s) \o <<"todo.md">> : s \in Sessions}

\* the plan the planner gives in the runs of one Agent
PlannerPlan == <<"goal", "1.", "2.", "3.">>

\* an Agent of a session, as far as its checklist goes
NoAgent ==
    [st |-> "none", is_running |-> FALSE, iterations |-> 0, events |-> <<>>,
     plan |-> <<>>, runs |-> 0]

\* ------------------------------------------------------------------- Init
Init ==
    /\ max_iter \in 0..MaxIterBound
    /\ auto_summarize_threshold \in {0, SummarizeEvery}
    /\ clientKind \in {"raw", "azure"}
    /\ is_running = FALSE
    /\ start_time = 0
    /\ iterations = 0
    /\ last_summary_iteration = 0
    /\ events = <<>>
    /\ iteration_count = 0
    /\ response = TextResponse(NoText)
    /\ tool_call = NoCall
    /\ pc = "new"
    /\ sp = "idle"
    /\ stopCalls = 0
    /\ now = 0
    /\ callStart = 0
    /\ outcome = "-"
    /\ notes = <<>>
    /\ dispatched = 0
    /\ memUpdates = 0
    /\ seen = {}
    /\ faults = 0
    /\ stopIter = 0
    /\ afterStop = 0
    /\ crashSite = "-"
    /\ files = [p \in Paths |-> NoFile]
    /\ active_agents = [s \in Sessions |-> NoAgent]
    /\ InitServer


\* ------------------------------------------------------- the model client
\* AzureOpenAIClient.chat_completion: re.search(r'```json\s*(.*?)\s*```', ...)
AzFenceStarts(s) ==
    {i \in 1..Len(s) : s[i] = "FJ" /\ \E j \in (i + 1)..Len(s) : s[j] \in {"F", "FJ"}}
AzFenceGroup(s) ==
    LET i == First(AzFenceStarts(s))
        j == First({k \in (i + 1)..Len(s) : s[k] \in {"F", "FJ"}})
    IN SubSeqOf(s, i + 1, j - 1)
\* chat_completion returns json.loads(json_text) (and does not raise)
chat_completion_returns(s) ==
    IF AzFenceStarts(s) # {} THEN JsonLoads(AzFenceGroup(s))
    ELSE bracket_match(s) /\ JsonLoads(BracketGroup(s))

\* Agent._get_llm_response: what the loop gets for the backend's content;
\* fails is the request itself raising
_get_llm_response_unguarded(kind, content, fails) ==
    IF fails THEN ParsedResponse
    ELSE IF kind = "raw" THEN TextResponse(content)
    ELSE ParsedResponse
_get_llm_response(kind, content, fails) ==
    IF fails THEN TextResponse(NoText)
    ELSE IF kind = "raw" THEN TextResponse(content)
    ELSE IF chat_completion_returns(content) THEN ParsedResponse
    ELSE TextResponse(NoText)

\* --------------------------------------------------------------- helpers
Elapsed == now - start_time
Raise(site) == pc' = "raised" /\ crashSite' = site
Goto(l) == pc' = l /\ crashSite' = crashSite
Saw(k) == seen' = seen \cup {k} /\ UNCHANGED faults
NoFault == UNCHANGED <<seen, faults>>
\* a collaborator (tool handler, planner, memory, file system, backend) raises
Fault(k) == faults < MaxFaults /\ faults' = faults + 1 /\ seen' = seen \cup {k}

\* ToolRegistry.execute_tool("message_notify_user", {"text": ...}) returned
Notified(kind) == notes' = Append(notes, kind)

\* the iteration in progress: what the counter shows while the loop body
\* runs (0 outside the loop body). Between the loop test of line 145 and
\* the increment of line 158 the counter still shows the iteration before.
BeforeIncrement == {"time_check", "t_notify", "t_report", "t_break"}
AfterIncrement ==
    {"summ", "build", "llm", "extract", "i_notify", "i_report", "i_break",
     "exec", "in_call"}
IterInProgress ==
    IF pc \in BeforeIncrement \cup AfterIncrement THEN iteration_count ELSE 0

\* ---------------------------------------------------------- Agent.start
Start ==
    /\ pc = "new"
    /\ is_running' = TRUE
    /\ start_time' = now
    /\ iterations' = 0
    /\ last_summary_iteration' = 0
    /\ events' = add_event(events, MessageEv)
    /\ Goto("s_notify")
    /\ notes' = <<>> /\ dispatched' = 0 /\ memUpdates' = 0 /\ seen' = {} /\ faults' = 0
    /\ stopIter' = 0 /\ afterStop' = 0
    /\ UNCHANGED <<config, server, files, active_agents, locals, stopper, now, callStart, outcome>>

StartNotify_Unguarded ==
    /\ pc = "s_notify"
    /\ \/ Notified("accepted") /\ NoFault /\ Goto("s_plan")
       \/ Fault("notify_fail") /\ UNCHANGED notes /\ Raise("s_notify")
    /\ UNCHANGED <<config, server, files, active_agents, agentFields, events, locals, stopper, now, callStart, outcome,
                   dispatched, memUpdates, stopHist>>
StartNotify ==
    /\ pc = "s_notify"
    /\ \/ Notified("accepted") /\ NoFault
       \/ Fault("notify_fail") /\ UNCHANGED notes
    /\ Goto("s_plan")
    /\ UNCHANGED <<config, server, files, active_agents, agentFields, events, locals, stopper, now, callStart, outcome,
                   dispatched, memUpdates, stopHist>>

StartPlan ==
    /\ pc = "s_plan"
    /\ \/ events' = add_event(events, PlanEv) /\ Goto("s_todo") /\ NoFault
       \/ Raise("plan") /\ Fault("plan_fail") /\ UNCHANGED events
    /\ UNCHANGED <<config, server, files, active_agents, agentFields, locals, stopper, now, callStart, outcome, notes, dispatched, memUpdates, stopHist>>

StartTodo ==
    /\ pc = "s_todo"
    /\ \/ /\ files' = [files EXCEPT ![todo_file("-")] = _create_todo_from_plan(PlannerPlan)]
          /\ NoFault
       \/ Fault("todo_fail") /\ UNCHANGED files
    /\ iteration_count' = 0
    /\ Goto("loop_head")
    /\ UNCHANGED <<config, server, active_agents, agentFields, events, response, tool_call, stopper,
                   now, callStart, outcome, notes, dispatched, memUpdates, stopHist>>

\* ----------------------------------------------------- Agent._agent_loop
\* while self.is_running and iteration_count < max_iter
LoopGuard_OffByOne == is_running /\ iteration_count <= max_iter
LoopGuard_Unbounded == is_running
LoopGuard == is_running /\ iteration_count < max_iter

LoopHead ==
    /\ pc = "loop_head"
    /\ Goto(IF LoopGuard THEN "time_check" ELSE "after_loop")
    /\ UNCHANGED <<config, server, files, active_agents, agentFields, events, locals, stopper, now, callStart, outcome,
                   notes, dispatched, memUpdates, seen, faults, stopHist>>

TimeExceeded_AtLeast == Elapsed >= max_time_seconds
TimeExceeded == Elapsed > max_time_seconds

TimeCheck ==
    /\ pc = "time_check"
    /\ IF TimeExceeded
       THEN /\ Goto("t_notify") /\ Saw("time")
            /\ UNCHANGED <<iteration_count, iterations>>
       ELSE /\ iteration_count' = iteration_count + 1
            /\ iterations' = iteration_count + 1
            /\ Goto("summ") /\ NoFault
    /\ UNCHANGED <<config, server, files, active_agents, is_running, start_time, last_summary_iteration, events,
                   response, tool_call, stopper, now, callStart, outcome, notes,
                   dispatched, memUpdates, stopHist>>

\* a call of execute_tool("message_notify_user", ...) outside any try
Announce(l, kind, next) ==
    /\ pc = l
    /\ \/ Notified(kind) /\ Goto(next) /\ NoFault
       \/ Raise(l) /\ Fault("notify_fail") /\ UNCHANGED notes
    /\ UNCHANGED <<config, server, files, active_agents, agentFields, events, locals, stopper, now, callStart, outcome,
                   dispatched, memUpdates, stopHist>>

\* Agent._report_progress: get_todo_status is outside the try, the
\* notification inside it
_report_progress(l, kind, next) ==
    /\ pc = l
    /\ \/ Notified(kind) /\ Goto(next) /\ NoFault
       \/ Goto(next) /\ Fault("notify_fail") /\ UNCHANGED notes
       \/ Raise(l) /\ Fault("mem_fail") /\ UNCHANGED notes
    /\ UNCHANGED <<config, server, files, active_agents, agentFields, events, locals, stopper, now, callStart, outcome,
                   dispatched, memUpdates, stopHist>>

\* self.is_running = False; break
Break(l) ==
    /\ pc = l
    /\ is_running' = FALSE
    /\ Goto("after_loop")
    /\ UNCHANGED <<config, server, files, active_agents, start_time, iterations, last_summary_iteration, events,
                   locals, stopper, now, callStart, outcome, notes, dispatched,
                   memUpdates, seen, faults, stopHist>>

TimeNotify == Announce("t_notify", "time", "t_report")
TimeReport == _report_progress("t_report", "progress", "t_break")
TimeBreak == Break("t_break")


\* ------------------------------------------------ Agent._summarize_context
recent_events(log) == SubSeq(log, Len(log) - KeepTail + 1, Len(log))
older_events(log) == SubSeq(log, 1, Len(log) - KeepTail)
\* ev["content"] of an Observation that has only an "error" key
PromptKeyError(log) ==
    \E i \in 1..Len(older_events(log)) :
        older_events(log)[i].type = "Observation" /\ older_events(log)[i].kind = "error"
\* the line that the loop of lines 235-245 adds to the request for one event:
\* there is a branch for Message, Plan, Action and Observation, and none for
\* Summary, which adds nothing
summary_line(ev) ==
    IF ev.type = "Message" THEN <<"user", ev.kind>>
    ELSE IF ev.type = "Plan" THEN <<"plan", ev.kind>>
    ELSE IF ev.type = "Action" THEN <<"action", ev.tool>>
    ELSE IF ev.type = "Observation" THEN <<"observation", ev.tool>>
    ELSE <<>>
\* the request text: one line per event of older_events
summary_prompt(log) ==
    [i \in 1..Len(older_events(log)) |-> summary_line(older_events(log)[i])]
\* clear(); add_event(Summary); add_event(ev) for ev in recent_events
Compacted_SummaryLast(log) == recent_events(log) \o <<SummaryEv>>
Compacted(log) == <<SummaryEv>> \o recent_events(log)

SummarizeDue_Strict ==
    /\ auto_summarize_threshold > 0
    /\ iteration_count - last_summary_iteration > auto_summarize_threshold
SummarizeDue ==
    /\ auto_summarize_threshold > 0
    /\ iteration_count - last_summary_iteration >= auto_summarize_threshold

Summarize ==
    /\ pc = "summ"
    /\ IF ~SummarizeDue
       THEN Goto("build") /\ UNCHANGED <<events, last_summary_iteration>> /\ NoFault
       ELSE IF Len(events) < KeepTail
       THEN /\ last_summary_iteration' = iteration_count
            /\ Goto("build") /\ UNCHANGED events /\ NoFault
       ELSE IF PromptKeyError(events)
       THEN Raise("summ") /\ Saw("summ_keyerror")
            /\ UNCHANGED <<events, last_summary_iteration>>
       ELSE \/ /\ events' = Compacted(events)
               /\ last_summary_iteration' = iteration_count
               /\ Goto("build") /\ Saw("compacted")
            \/ /\ Raise("summ") /\ Fault("summ_fail")
               /\ UNCHANGED <<events, last_summary_iteration>>
    /\ UNCHANGED <<config, server, files, active_agents, is_running, start_time, iterations, locals, stopper,
                   now, callStart, outcome, notes, dispatched, memUpdates, stopHist>>

\* the line of events_text for one event (lines 371-387)
events_text(ev) ==
    IF ev.type = "Message" THEN <<"user", ev.kind>>
    ELSE IF ev.type = "Plan" THEN <<"plan", ev.kind>>
    ELSE IF ev.type = "Action" THEN <<"action", ev.tool>>
    ELSE IF ev.type = "Observation"
         THEN IF ev.kind = "error" THEN <<"observation_error", ev.tool>>
              ELSE <<"observation", ev.tool>>
    ELSE IF ev.type = "Summary" THEN <<"summary", ev.kind>>
    ELSE <<>>
\* the prompt text (lines 395-403): system prompt, one line per event, the
\* memory state, the tool names
_build_prompt(log, memory_state, all_tools) ==
    <<"system_prompt", [i \in 1..Len(log) |-> events_text(log[i])],
      memory_state, all_tools>>

\* Agent._build_prompt: reads the log, the memory state and the tool names
BuildPrompt_Logging ==
    /\ pc = "build"
    /\ events' = add_event(events, SummaryEv)
    /\ Goto("llm") /\ NoFault
    /\ UNCHANGED <<config, server, files, active_agents, agentFields, locals, stopper, now, callStart, outcome,
                   notes, dispatched, memUpdates, stopHist>>
BuildPrompt ==
    /\ pc = "build"
    /\ \/ Goto("llm") /\ NoFault
       \/ Raise("build") /\ Fault("mem_fail")
    /\ UNCHANGED <<config, server, files, active_agents, agentFields, events, locals, stopper, now, callStart, outcome,
                   notes, dispatched, memUpdates, stopHist>>

GetLlmResponse ==
    /\ pc = "llm"
    /\ \E content \in Responses, fails \in BOOLEAN :
          /\ response' = _get_llm_response(clientKind, content, fails)
          /\ IF fails THEN Fault("llm_fail")
             ELSE IF clientKind = "azure" /\ ~chat_completion_returns(content)
             THEN Saw("llm_fail")
             ELSE NoFault
    /\ Goto("extract")
    /\ UNCHANGED <<config, server, files, active_agents, agentFields, events, iteration_count, tool_call, stopper,
                   now, callStart, outcome, notes, dispatched, memUpdates, stopHist>>

\* lines 172-175: the Observation of a failed extraction; continue
on_no_tool_call_silent == UNCHANGED events /\ Goto("loop_head")
on_no_tool_call_retry == UNCHANGED events /\ Goto("build")
on_no_tool_call == events' = add_event(events, ExtractFailEv) /\ Goto("loop_head")

\* lines 171-189: extraction, the idle test, the Action event
Extract ==
    /\ pc = "extract"
    /\ IF response.kind # "str"
       THEN Raise("extract") /\ Saw("parsed") /\ UNCHANGED <<events, tool_call>>
       ELSE LET tc == _extract_tool_call(response.text) IN
            /\ tool_call' = tc
            /\ IF tc = NoCall
               THEN on_no_tool_call /\ Saw("extract_fail")
               ELSE IF tc.name = IDLE
               THEN /\ UNCHANGED events
                    /\ IF tc.params = "bad"
                       THEN Raise("idle") /\ Saw("idle_bad")
                       ELSE Goto("i_notify") /\ Saw("idle")
               ELSE /\ events' = add_event(events, ActionEv(tc.name))
                    /\ Goto("exec") /\ NoFault
    /\ UNCHANGED <<config, server, files, active_agents, agentFields, iteration_count, response, stopper, now,
                   callStart, outcome, notes, dispatched, memUpdates, stopHist>>

IdleNotify == Announce("i_notify", "idle", "i_report")
IdleReport == _report_progress("i_report", "final", "i_break")
IdleBreak == Break("i_break")

\* ToolRegistry.execute_tool(name, params) up to the call of the handler:
\* "raise" when it raises before any handler runs, else "call"
execute_tool_any_name(name, params) == IF params = "bad" THEN "raise" ELSE "call"
execute_tool(name, params) ==
    IF name \notin RegisteredTools THEN "raise"
    ELSE IF params = "bad" THEN "raise"
    ELSE "call"

\* lines 201-204: except Exception: the error Observation; the loop goes on
except_propagates(log, name) == events' = log /\ Raise("exec")
except_Exception(log, name) ==
    events' = add_event(log, ErrorEv(name)) /\ Goto("loop_head")

\* line 192 up to the call of the handler
ExecBegin ==
    /\ pc = "exec"
    /\ IF execute_tool(tool_call.name, tool_call.params) = "raise"
       THEN /\ except_Exception(events, tool_call.name)
            /\ outcome' = IF tool_call.name \notin RegisteredTools
                          THEN "unknown_tool" ELSE "bad_params"
            /\ Saw(IF tool_call.name \notin RegisteredTools
                   THEN "unknown_tool" ELSE "bad_params")
            /\ UNCHANGED <<dispatched, callStart>>
       ELSE /\ dispatched' = dispatched + 1
            /\ callStart' = now
            /\ outcome' = "-"
            /\ Goto("in_call")
            /\ UNCHANGED events /\ NoFault
    /\ UNCHANGED <<config, server, files, active_agents, agentFields, locals, stopper, now, notes,
                   memUpdates, stopHist>>

\* the handler returns or raises (lines 192-204); nothing makes it return
ExecReturn ==
    /\ pc = "in_call"
    /\ \/ /\ events' = add_event(events, ResultEv(tool_call.name))
          /\ Goto("loop_head")
          /\ memUpdates' = memUpdates + 1
          /\ outcome' = "ok"
          /\ Saw("tool_ok")
       \/ /\ except_Exception(events, tool_call.name)
          /\ outcome' = "raise"
          /\ Saw("tool_raise")
          /\ UNCHANGED memUpdates
       \/ \* update_from_observation or _handle_special_tool_results raises
          /\ except_Exception(add_event(events, ResultEv(tool_call.name)),
                              tool_call.name)
          /\ memUpdates' = memUpdates + 1
          /\ outcome' = "post_raise"
          /\ Fault("post_raise")
    /\ afterStop' = IF "stop" \in seen THEN afterStop + 1 ELSE afterStop
    /\ callStart' = 0
    /\ UNCHANGED <<config, server, files, active_agents, agentFields, locals, stopper, now, notes,
                   dispatched, stopIter>>

\* lines 206-214
BudgetReached == iterations >= max_iter

AfterLoop ==
    /\ pc = "after_loop"
    /\ Goto(IF BudgetReached THEN "m_notify" ELSE "fin")
    /\ UNCHANGED <<config, server, files, active_agents, agentFields, events, locals, stopper, now, callStart, outcome,
                   notes, dispatched, memUpdates, seen, faults, stopHist>>

MaxNotify == Announce("m_notify", "max", "m_report")
MaxReport == _report_progress("m_report", "progress", "fin")

Finish ==
    /\ pc = "fin"
    /\ is_running' = FALSE
    /\ Goto("returned")
    /\ UNCHANGED <<config, server, files, active_agents, start_time, iterations, last_summary_iteration, events,
                   locals, stopper, now, callStart, outcome, notes, dispatched,
                   memUpdates, seen, faults, stopHist>>

\* ------------------------------------------------------------ Agent.stop
\* "if self.is_running: self.is_running = False" is one step: the only other
\* writes of is_running after the run began store False as well
StopCall ==
    /\ sp = "idle"
    /\ stopCalls < MaxStops
    /\ stopCalls' = stopCalls + 1
    /\ IF is_running
       THEN /\ is_running' = FALSE
            /\ sp' = "notify"
            /\ stopIter' = IterInProgress
            /\ seen' = seen \cup {"stop"} \cup
                          (IF pc = "llm" THEN {"stop_in_flight"} ELSE {})
            /\ UNCHANGED faults
       ELSE UNCHANGED <<is_running, sp, stopIter, seen, faults>>
    /\ UNCHANGED <<config, server, files, active_agents, start_time, iterations, last_summary_iteration, events,
                   locals, pc, now, callStart, outcome, notes, dispatched, memUpdates,
                   afterStop, crashSite>>

StopNotify ==
    /\ sp = "notify"
    /\ sp' = "idle"
    /\ \/ Notified("stop") /\ NoFault
       \/ Fault("notify_fail") /\ UNCHANGED notes
    /\ UNCHANGED <<config, server, files, active_agents, agentFields, events, locals, pc, stopCalls, now,
                   callStart, outcome, dispatched, memUpdates, stopHist, crashSite>>

\* ------------------------------------------------- the text of the reports
\* What a report tells, as the set of the figures its text holds.
\* Memory.file_registry: filled by file_write and file_str_replace only,
\* which are not among the tools the backend of this model selects
file_registry == {}
\* the text of the notification of stop()
stop_text == {"elapsed"}
\* the text built by _report_progress
report_text(todo_exists, file_count) ==
    {"elapsed", "iterations"}
        \cup (IF todo_exists THEN {"todo_fraction", "todo_percent"} ELSE {})
        \cup (IF file_count > 0 THEN {"file_count"} ELSE {})
text_of(kind) ==
    IF kind = "stop" THEN stop_text
    ELSE report_text(files[todo_file("-")].exists, Cardinality(file_registry))

\* ------------------------------------------------------------- the clock
\* The clock is read by Start, TimeCheck and ExecBegin only; the time that
\* passes between two reads passes in the blocking call between them
\* (the planner, the model backend, the tool).
Blocking == {"s_plan", "llm", "in_call"}

Tick ==
    /\ now < MaxClock
    /\ pc \in Blocking
    /\ now' = now + 1
    /\ UNCHANGED <<config, server, files, active_agents, agentFields, events, locals, pc, stopper, callStart, outcome,
                   notes, dispatched, memUpdates, seen, faults, stopHist, crashSite>>

Next ==
    \/ Start \/ StartNotify \/ StartPlan \/ StartTodo
    \/ LoopHead \/ TimeCheck \/ TimeNotify \/ TimeReport \/ TimeBreak
    \/ Summarize \/ BuildPrompt \/ GetLlmResponse \/ Extract
    \/ IdleNotify \/ IdleReport \/ IdleBreak
    \/ ExecBegin \/ ExecReturn
    \/ AfterLoop \/ MaxNotify \/ MaxReport \/ Finish
    \/ StopCall \/ StopNotify
    \/ Tick

Spec == Init /\ [][Next]_vars




\* ------------------------------------------- _extract_tool_call on its own
\* Every response text of at most MaxLen tokens is given to
\* _extract_tool_call. (A name that is not registered is extracted like one
\* that is, and "parameters" that are no object do not change which text is
\* parsed: the texts are built without BOGUS and PB, which Responses cover.)
ExtractTokens == Token \ {BOGUS, "PB"}

InitExtract ==
    /\ max_iter = 0
    /\ auto_summarize_threshold = 0
    /\ clientKind = "raw"
    /\ is_running = FALSE
    /\ start_time = 0
    /\ iterations = 0
    /\ last_summary_iteration = 0
    /\ events = <<>>
    /\ iteration_count = 0
    /\ \E n \in 0..MaxLen : \E s \in [1..n -> ExtractTokens] :
          response = TextResponse(s)
    /\ tool_call = NoCall
    /\ pc = "x_text"
    /\ sp = "idle"
    /\ stopCalls = 0
    /\ now = 0
    /\ callStart = 0
    /\ outcome = "-"
    /\ notes = <<>>
    /\ dispatched = 0
    /\ memUpdates = 0
    /\ seen = {}
    /\ faults = 0
    /\ stopIter = 0
    /\ afterStop = 0
    /\ crashSite = "-"
    /\ files = [p \in Paths |-> NoFile]
    /\ active_agents = [s \in Sessions |-> NoAgent]
    /\ InitServer

ExtractOnly ==
    /\ pc = "x_text"
    /\ tool_call' = _extract_tool_call(response.text)
    /\ pc' = "x_done"
    /\ UNCHANGED <<config, server, files, active_agents, agentFields, events, iteration_count, response, stopper,
                   now, callStart, outcome, notes, dispatched, memUpdates, seen,
                   faults, stopHist, crashSite>>

NextExtract == ExtractOnly

SpecExtract == InitExtract /\ [][NextExtract]_vars


\* ------------------------------------------------- runs that reach compaction
\* One thread, no stop() and a clock that stands still: runs of LongRun
\* iterations, long enough for the log to reach KeepTail events, with
\* compaction due at every iteration or at every SummarizeEvery-th.
InitLong ==
    /\ max_iter = LongRun
    /\ auto_summarize_threshold \in {1, SummarizeEvery}
    /\ clientKind = "raw"
    /\ is_running = FALSE
    /\ start_time = 0
    /\ iterations = 0
    /\ last_summary_iteration = 0
    /\ events = <<>>
    /\ iteration_count = 0
    /\ response = TextResponse(NoText)
    /\ tool_call = NoCall
    /\ pc = "new"
    /\ sp = "idle"
    /\ stopCalls = 0
    /\ now = 0
    /\ callStart = 0
    /\ outcome = "-"
    /\ notes = <<>>
    /\ dispatched = 0
    /\ memUpdates = 0
    /\ seen = {}
    /\ faults = 0
    /\ stopIter = 0
    /\ afterStop = 0
    /\ crashSite = "-"
    /\ files = [p \in Paths |-> NoFile]
    /\ active_agents = [s \in Sessions |-> NoAgent]
    /\ InitServer

NextLong ==
    \/ Start \/ StartNotify \/ StartPlan \/ StartTodo
    \/ LoopHead \/ TimeCheck
    \/ Summarize \/ BuildPrompt \/ GetLlmResponse \/ Extract
    \/ IdleNotify \/ IdleReport \/ IdleBreak
    \/ ExecBegin \/ ExecReturn
    \/ AfterLoop \/ MaxNotify \/ MaxReport \/ Finish

SpecLong == InitLong /\ [][NextLong]_vars

\* The thread that runs start(), alone and with a clock that stands still,
\* from every configuration of Init. The thread takes its next step whenever
\* it has one, which is the case when every call it waits for (planner,
\* backend, handler, notification) returns or raises.
SpecFair == Init /\ [][NextLong]_vars /\ WF_vars(NextLong)

\* ------------------------------------------------- the cadence of line 162
\* runs of CadenceRun iterations for every kind of threshold: disabled (0),
\* every iteration (1), every SummarizeEvery iterations
InitCadence ==
    /\ max_iter = CadenceRun
    /\ auto_summarize_threshold \in {0, 1, SummarizeEvery}
    /\ clientKind = "raw"
    /\ is_running = FALSE
    /\ start_time = 0
    /\ iterations = 0
    /\ last_summary_iteration = 0
    /\ events = <<>>
    /\ iteration_count = 0
    /\ response = TextResponse(NoText)
    /\ tool_call = NoCall
    /\ pc = "new"
    /\ sp = "idle"
    /\ stopCalls = 0
    /\ now = 0
    /\ callStart = 0
    /\ outcome = "-"
    /\ notes = <<>>
    /\ dispatched = 0
    /\ memUpdates = 0
    /\ seen = {}
    /\ faults = 0
    /\ stopIter = 0
    /\ afterStop = 0
    /\ crashSite = "-"
    /\ files = [p \in Paths |-> NoFile]
    /\ active_agents = [s \in Sessions |-> NoAgent]
    /\ InitServer

SpecCadence == InitCadence /\ [][NextLong]_vars

\* ------------------------------------------------- runs with several compactions
\* runs of CompactRun iterations with compaction due at every iteration: the
\* log reaches KeepTail events at iteration 5 and is compacted again at every
\* later iteration, with the earlier Summary and the events of the first
\* iterations in the part that is replaced
InitCompact ==
    /\ max_iter = CompactRun
    /\ auto_summarize_threshold = 1
    /\ clientKind = "raw"
    /\ is_running = FALSE
    /\ start_time = 0
    /\ iterations = 0
    /\ last_summary_iteration = 0
    /\ events = <<>>
    /\ iteration_count = 0
    /\ response = TextResponse(NoText)
    /\ tool_call = NoCall
    /\ pc = "new"
    /\ sp = "idle"
    /\ stopCalls = 0
    /\ now = 0
    /\ callStart = 0
    /\ outcome = "-"
    /\ notes = <<>>
    /\ dispatched = 0
    /\ memUpdates = 0
    /\ seen = {}
    /\ faults = 0
    /\ stopIter = 0
    /\ afterStop = 0
    /\ crashSite = "-"
    /\ files = [p \in Paths |-> NoFile]
    /\ active_agents = [s \in Sessions |-> NoAgent]
    /\ InitServer

SpecCompact == InitCompact /\ [][NextLong]_vars


\* ------------------------------------------------ sessions of api_server
\* Each session runs Agents of its own (run_agent creates one per task), all
\* in one process and one working directory. Of a run this part keeps the
\* start (Message, Plan, checklist), the completion of checklist items by the
\* file tool, and the end.
Plans ==
    { <<"goal", "1.", "2.", "3.">>,
      <<"goal", "1.", "2.", "3.", "4.">>,
      <<"prose", "blank", "prose">>,        \* no numbered step: the other format
      <<"#", "goal", "blank">> }            \* no step at all
FILE_TOOL == "file_str_replace"

single_agent ==
    <<config, agentFields, events, locals, pc, stopper, now, callStart, outcome,
      notes, dispatched, memUpdates, seen, faults, stopHist, crashSite>>
single ==
    <<config, server, agentFields, events, locals, pc, stopper, now, callStart, outcome,
      notes, dispatched, memUpdates, seen, faults, stopHist, crashSite>>

InitSessions ==
    /\ max_iter = 0
    /\ auto_summarize_threshold = 0
    /\ clientKind = "raw"
    /\ is_running = FALSE
    /\ start_time = 0
    /\ iterations = 0
    /\ last_summary_iteration = 0
    /\ events = <<>>
    /\ iteration_count = 0
    /\ response = TextResponse(NoText)
    /\ tool_call = NoCall
    /\ pc = "x_sessions"
    /\ sp = "idle"
    /\ stopCalls = 0
    /\ now = 0
    /\ callStart = 0
    /\ outcome = "-"
    /\ notes = <<>>
    /\ dispatched = 0
    /\ memUpdates = 0
    /\ seen = {}
    /\ faults = 0
    /\ stopIter = 0
    /\ afterStop = 0
    /\ crashSite = "-"
    /\ files = [p \in Paths |-> NoFile]
    /\ active_agents = [s \in Sessions |-> NoAgent]
    /\ InitServer

\* api_server.run_agent / create_agent: a new Agent for the session
create_agent(s) ==
    /\ active_agents[s].st \in {"none", "ended"}
    /\ active_agents[s].runs < MaxRuns
    /\ active_agents' = [active_agents EXCEPT ![s] =
          [NoAgent EXCEPT !.st = "created", !.runs = active_agents[s].runs + 1]]
    /\ UNCHANGED <<single, files>>

\* Agent.start, lines 59-65
SessionStart(s) ==
    /\ active_agents[s].st = "created"
    /\ active_agents' = [active_agents EXCEPT ![s] =
          [@ EXCEPT !.st = "s_plan", !.is_running = TRUE, !.iterations = 0,
                    !.events = add_event(@, MessageEv)]]
    /\ UNCHANGED <<single, files>>

\* ui/cli.py: agent.start(task) again on the Agent whose run has ended; the
\* Context made by __init__ (line 46) is the one start() appends to
SessionStartAgain(s) ==
    /\ active_agents[s].st = "ended"
    /\ active_agents[s].runs < MaxRuns
    /\ active_agents' = [active_agents EXCEPT ![s] =
          [@ EXCEPT !.st = "s_plan", !.is_running = TRUE, !.iterations = 0,
                    !.runs = @ + 1,
                    !.events = add_event(@, MessageEv)]]
    /\ UNCHANGED <<single, files>>

\* Agent.start, lines 76-77
SessionPlan(s) ==
    /\ active_agents[s].st = "s_plan"
    /\ \E plan \in Plans :
          active_agents' = [active_agents EXCEPT ![s] =
             [@ EXCEPT !.st = "s_todo", !.plan = plan,
                       !.events = add_event(@, PlanEv)]]
    /\ UNCHANGED <<single, files>>

\* Agent.start, lines 80-83: _create_todo_from_plan(plan_text)
SessionTodo(s) ==
    /\ active_agents[s].st = "s_todo"
    /\ files' = [files EXCEPT ![todo_file(s)] =
                   _create_todo_from_plan(active_agents[s].plan)]
    /\ active_agents' = [active_agents EXCEPT ![s].st = "running"]
    /\ UNCHANGED single

\* an iteration of the loop in which the file tool turns "- [ ]" of one item
\* of the checklist into "- [x]"
SessionMark(s) ==
    /\ active_agents[s].st = "running"
    /\ \E i \in 1..Len(files[todo_file(s)].items) :
          /\ ~files[todo_file(s)].items[i].done
          /\ files' = [files EXCEPT ![todo_file(s)].items[i].done = TRUE]
    /\ active_agents' = [active_agents EXCEPT ![s] =
          [@ EXCEPT !.iterations = @ + 1,
                    !.events = add_event(add_event(@, ActionEv(FILE_TOOL)),
                                         ResultEv(FILE_TOOL))]]
    /\ UNCHANGED single

\* the run ends: self.is_running = False (line 214)
SessionFinish(s) ==
    /\ active_agents[s].st = "running"
    /\ active_agents' = [active_agents EXCEPT ![s] =
          [@ EXCEPT !.st = "ended", !.is_running = FALSE]]
    /\ UNCHANGED <<single, files>>

NextSessions ==
    \E s \in Sessions :
        \/ create_agent(s) \/ SessionStart(s) \/ SessionPlan(s)
        \/ SessionTodo(s) \/ SessionMark(s) \/ SessionFinish(s)

SpecSessions == InitSessions /\ [][NextSessions]_vars

\* ui/cli.py: one Agent, made once, whose start() is called for every task
CliAgent == "s1"
NextCli ==
    \/ active_agents[CliAgent].st = "none" /\ create_agent(CliAgent)
    \/ SessionStart(CliAgent) \/ SessionStartAgain(CliAgent)
    \/ SessionPlan(CliAgent) \/ SessionTodo(CliAgent)
    \/ SessionMark(CliAgent) \/ SessionFinish(CliAgent)

SpecCli == InitSessions /\ [][NextCli]_vars

\* -------------------------------------------- the checklist of any plan
\* start() has appended the Plan; the plan text is any sequence of at most
\* MaxPlanLen lines
InitChecklist ==
    /\ max_iter = 0
    /\ auto_summarize_threshold = 0
    /\ clientKind = "raw"
    /\ is_running = FALSE
    /\ start_time = 0
    /\ iterations = 0
    /\ last_summary_iteration = 0
    /\ events = <<>>
    /\ iteration_count = 0
    /\ response = TextResponse(NoText)
    /\ tool_call = NoCall
    /\ pc = "x_sessions"
    /\ sp = "idle"
    /\ stopCalls = 0
    /\ now = 0
    /\ callStart = 0
    /\ outcome = "-"
    /\ notes = <<>>
    /\ dispatched = 0
    /\ memUpdates = 0
    /\ seen = {}
    /\ faults = 0
    /\ stopIter = 0
    /\ afterStop = 0
    /\ crashSite = "-"
    /\ files = [p \in Paths |-> NoFile]
    /\ \E n \in 0..MaxPlanLen : \E plan \in [1..n -> PlanLine] :
          active_agents = [s \in Sessions |->
             IF s = CliAgent
             THEN [NoAgent EXCEPT !.st = "s_todo", !.is_running = TRUE, !.runs = 1,
                                  !.plan = plan, !.events = <<MessageEv, PlanEv>>]
             ELSE NoAgent]
    /\ InitServer

NextChecklist ==
    \/ SessionTodo(CliAgent) \/ SessionMark(CliAgent) \/ SessionFinish(CliAgent)

SpecChecklist == InitChecklist /\ [][NextChecklist]_vars


\* ------------------------------------------- one session_id of api_server
\* The tasks, stop requests and user responses that the REST and WebSocket
\* handlers receive for one session_id, the threads run_agent starts for it
\* and the calls of message_ask_handler those threads make. A run is reduced
\* to its is_running flag and the state of its thread.
Active == {i \in 1..Len(threads) : threads[i].st # "done"}
askVars == <<session_queue, user_response_queue, getters, ask, submittedAt, answers>>

\* run_agent: create_agent makes a new Agent and stores it in
\* active_agents[session_id] (line 152), whatever was stored there; a thread
\* is started for it. Nothing checks whether a run of the session is active.
run_agent ==
    /\ Len(threads) < MaxTasks
    /\ threads' = Append(threads, [is_running |-> FALSE, st |-> "created"])
    /\ registered' = Len(threads) + 1
    /\ UNCHANGED <<askVars, single_agent, files, active_agents>>

\* start_agent_thread: the thread reaches agent.start (agent.py:59)
start_agent_thread(i) ==
    /\ threads[i].st = "created"
    /\ threads' = [threads EXCEPT ![i] = [is_running |-> TRUE, st |-> "running"]]
    /\ UNCHANGED <<registered, askVars, single_agent, files, active_agents>>

\* agent.start returns in the thread (stop seen by the loop test, idle,
\* budget): the thread ends. No entry of active_agents is removed.
thread_ends(i) ==
    /\ threads[i].st = "running"
    /\ ask.by # i
    /\ threads' = [threads EXCEPT ![i] = [is_running |-> FALSE, st |-> "done"]]
    /\ UNCHANGED <<registered, askVars, single_agent, files, active_agents>>

\* stop_agent and the "stop" message of receive_messages:
\* active_agents[session_id].stop(), which clears is_running if it is set
stop_agent ==
    /\ registered # 0
    /\ threads[registered].is_running
    /\ threads' = [threads EXCEPT ![registered].is_running = FALSE]
    /\ UNCHANGED <<registered, askVars, single_agent, files, active_agents>>

\* asyncio.get_event_loop() called in an agent thread: RuntimeError when the
\* thread has no loop, else the loop that was set for the thread: the
\* server's, or one that runs nothing (browser_tools.py:62-63 sets such a
\* loop in the thread that calls a browser tool)
Loops == {"none", "server", "other"}

\* message_ask_handler, lines 101-110: the question is handed to the loop
\* for active_sessions[session_id].put
AskPut(i) ==
    /\ ask.at = "idle"
    /\ ask.q < MaxQuestions
    /\ threads[i].st = "running"
    /\ \E l \in Loops :
          IF l = "none"
          THEN /\ ask' = [NoAsk EXCEPT !.q = ask.q + 1]
               /\ UNCHANGED <<session_queue, answers>>
          ELSE /\ ask' = [q |-> ask.q + 1, by |-> i, at |-> "get", loop |-> l, got |-> 0]
               /\ session_queue' = IF l = "server" THEN session_queue \cup {ask.q + 1}
                                   ELSE session_queue
               /\ UNCHANGED answers
    /\ UNCHANGED <<threads, registered, user_response_queue, getters, submittedAt,
                   single_agent, files, active_agents>>

\* lines 113-120: response_queue.get() is handed to the loop, and the thread
\* waits for its result
AskGet ==
    /\ ask.at = "get"
    /\ ask' = [ask EXCEPT !.at = "wait"]
    /\ getters' = IF ask.loop = "server" THEN Append(getters, ask.q) ELSE getters
    /\ UNCHANGED <<threads, registered, session_queue, user_response_queue, submittedAt,
                   answers, single_agent, files, active_agents>>

\* the server's loop: the first waiting get() takes the first response of
\* the queue; the result goes to the call that waits for it, if it still does
QueueGet ==
    /\ getters # <<>> /\ user_response_queue # <<>>
    /\ getters' = Tail(getters)
    /\ user_response_queue' = Tail(user_response_queue)
    /\ ask' = IF ask.at = "wait" /\ ask.q = Head(getters)
              THEN [ask EXCEPT !.got = Head(user_response_queue)]
              ELSE ask
    /\ UNCHANGED <<threads, registered, session_queue, submittedAt, answers,
                   single_agent, files, active_agents>>

\* lines 121-123: future.result returned the response
AskReturn ==
    /\ ask.at = "wait" /\ ask.got # 0
    /\ answers' = Append(answers, [q |-> ask.q, kind |-> "response", value |-> ask.got])
    /\ ask' = [NoAsk EXCEPT !.q = ask.q]
    /\ UNCHANGED <<threads, registered, session_queue, user_response_queue, getters,
                   submittedAt, single_agent, files, active_agents>>

\* lines 124-126: future.result(timeout=300) raised; the get() that was
\* handed to the loop is not cancelled
AskTimeout ==
    /\ ask.at = "wait" /\ ask.got = 0
    /\ answers' = Append(answers, [q |-> ask.q, kind |-> "timeout", value |-> 0])
    /\ ask' = [NoAsk EXCEPT !.q = ask.q]
    /\ UNCHANGED <<threads, registered, session_queue, user_response_queue, getters,
                   submittedAt, single_agent, files, active_agents>>

\* submit_response and the "response" message of receive_messages: the
\* response is put on user_response_queues[session_id], pending question or not
submit_response ==
    /\ Len(submittedAt) < MaxResponses
    /\ user_response_queue' = Append(user_response_queue, Len(submittedAt) + 1)
    /\ submittedAt' = Append(submittedAt, session_queue)
    /\ UNCHANGED <<threads, registered, session_queue, getters, ask, answers,
                   single_agent, files, active_agents>>

NextServer ==
    \/ run_agent
    \/ \E i \in 1..Len(threads) : start_agent_thread(i)
    \/ \E i \in 1..Len(threads) : thread_ends(i)
    \/ \E i \in 1..Len(threads) : AskPut(i)
    \/ stop_agent
    \/ AskGet \/ QueueGet \/ AskReturn \/ AskTimeout
    \/ submit_response

SpecServer == InitSessions /\ [][NextServer]_vars


\* ================================================================ claims
Count(seq, S) == Cardinality({i \in 1..Len(seq) : seq[i] \in S})
ActionIdx == {i \in 1..Len(events) : events[i].type = "Action"}
LastEvent == events[Len(events)]
\* the reports that end a run: _report_progress and the notification of stop()
FinalReports == Count(notes, {"progress", "final", "stop"})

\* C1 (budget enforcement): when every response of the backend held a call
\* of a registered tool that returned, no collaborator raised, the time
\* budget was not exceeded and stop() was not called, start() returns after
\* exactly max_iter tool calls, each Action in the log directly followed by
\* its Observation, the last two notifications being the budget announcement
\* and the progress report, and is_running false.
C1_BudgetEnforcement ==
    (pc = "returned" /\ max_iter >= 1 /\ seen \subseteq {"tool_ok", "compacted"}) =>
        /\ dispatched = max_iter
        /\ iterations = max_iter
        /\ "compacted" \notin seen =>
             /\ Cardinality(ActionIdx) = max_iter
             /\ \A i \in ActionIdx :
                   i < Len(events) /\ events[i + 1] = ResultEv(events[i].tool)
        /\ Len(notes) >= 2
        /\ notes[Len(notes) - 1] = "max" /\ notes[Len(notes)] = "progress"
        /\ ~is_running
C1_Witness ==
    /\ pc = "returned" /\ max_iter = MaxIterBound /\ seen = {"tool_ok"}
    /\ dispatched = MaxIterBound

C3_ExactlyOneFinalReport ==
    (pc = "returned" /\ faults = 0 /\ "stop" \notin seen /\ max_iter >= 1) =>
        FinalReports = 1

\* C4 (idle sentinel): after the idle selection no further iteration begins,
\* the iteration has appended no Action and called no tool, and the run is
\* reported as completed, never as stopped by the iteration budget.
AfterIdle ==
    {"i_notify", "i_report", "i_break", "after_loop", "m_notify", "m_report",
     "fin", "returned", "raised"}
C4_IdleEndsAsCompletion ==
    "idle" \in seen =>
        /\ pc \in AfterIdle
        /\ LastEvent.type # "Action"
        /\ Count(notes, {"max", "progress"}) = 0

\* C5 (extraction failure): a step of the loop that finds no valid tool call
\* appends exactly the extraction-failure Observation, calls no tool, leaves
\* the (already incremented) iteration counter alone and goes to the next
\* loop test; and a run in which no response ever held a valid tool call
\* returns after exactly max_iter iterations with no tool called.
C5_Step ==
    (/\ pc = "extract" /\ pc' # "extract"
     /\ response.kind = "str" /\ _extract_tool_call(response.text) = NoCall) =>
        /\ events' = Append(events, ExtractFailEv)
        /\ pc' = "loop_head"
        /\ dispatched' = dispatched
        /\ iterations' = iterations /\ iterations = iteration_count
        /\ iterations >= 1
C5_Final ==
    (pc = "returned" /\ seen \subseteq {"extract_fail", "llm_fail"}) =>
        /\ iterations = max_iter
        /\ dispatched = 0
        /\ events = <<MessageEv, PlanEv>> \o [i \in 1..max_iter |-> ExtractFailEv]
C5_ExtractionFailure == [][C5_Step]_vars /\ []C5_Final
C5_Witness ==
    /\ pc = "returned" /\ max_iter = MaxIterBound /\ seen = {"extract_fail"}
    /\ iterations = MaxIterBound /\ dispatched = 0

\* C6 (extraction order), as the claim states it: when the response holds a
\* fenced block (```json up to the next ```), what is parsed is the text of
\* a fenced block; the bare {...} is used only when there is no fenced block.
FencedBlocks(s) ==
    {b \in (1..Len(s)) \X (1..Len(s)) :
        /\ s[b[1]] = "FJ" /\ b[1] < b[2] /\ s[b[2]] \in {"F", "FJ"}
        /\ \A k \in (b[1] + 1)..(b[2] - 1) : s[k] \notin {"F", "FJ"}}
BareObject(s) ==
    LET opens == {i \in 1..Len(s) : s[i] \in Opening}
        closes == {j \in 1..Len(s) : s[j] = "RB"}
    IN IF opens # {} /\ closes # {} /\ First(opens) < Last(closes)
       THEN ExtractOf(<<"LB">> \o SubSeq(s, First(opens) + 1, Last(closes)))
       ELSE NoCall
C6_ExtractionOrder ==
    pc = "x_done" =>
        IF FencedBlocks(response.text) # {}
        THEN \E b \in FencedBlocks(response.text) :
                tool_call = ExtractOf(SubSeq(response.text, b[1] + 1, b[2] - 1))
        ELSE tool_call = BareObject(response.text)

\* C6 as amended: the fenced text is used when the response holds ```json
\* directly followed by { and, later, a } directly followed by ```: the
\* leftmost such ```json, and from its { to the first such }. In every other
\* case (also when a fenced block holds no such object) the text from the
\* first { to the last } of the response is used. A text that is no JSON
\* object with a "name" gives None.
FencedObjects(s) ==
    {b \in (1..Len(s)) \X (1..Len(s)) :
        /\ s[b[1]] = "FJ" /\ b[1] + 1 < b[2] /\ b[2] < Len(s)
        /\ s[b[1] + 1] = "LB" /\ s[b[2]] = "RB" /\ s[b[2] + 1] \in {"F", "FJ"}}
LeftmostShortest(B) ==
    CHOOSE b \in B : \A c \in B : b[1] < c[1] \/ (b[1] = c[1] /\ b[2] <= c[2])
C6_ExtractionOrder_Amended ==
    pc = "x_done" =>
        IF FencedObjects(response.text) # {}
        THEN LET b == LeftmostShortest(FencedObjects(response.text))
             IN tool_call = ExtractOf(SubSeq(response.text, b[1] + 1, b[2]))
        ELSE tool_call = BareObject(response.text)
C6_Witness ==
    /\ pc = "x_done"
    /\ response.text = <<"FJ", "F", "LB", SEARCH, "RB">>
    /\ tool_call = [name |-> SEARCH, params |-> "dict"]

\* C7 (error propagation): no error raised inside an iteration leaves the
\* loop: start() is never left by an exception raised between the loop test
\* and the end of the loop body.
IterationSites ==
    {"t_notify", "t_report", "summ", "build", "extract", "idle", "i_notify",
     "i_report", "exec"}
C7_NoIterationErrorEndsRun ==
    pc = "raised" => crashSite \notin IterationSites

\* C8 (capability failure): when the handler raises, the step appends the
\* error Observation of that tool, raises nothing out of the loop and goes
\* to the next loop test.
C8_CapabilityFailure ==
    [][(pc = "in_call" /\ pc' # "in_call" /\ outcome' = "raise") =>
          /\ events' = Append(events, ErrorEv(tool_call.name))
          /\ pc' = "loop_head"
          /\ crashSite' = crashSite]_vars
C8_Witness ==
    /\ outcome = "raise" /\ pc = "loop_head"
    /\ LastEvent = ErrorEv(SEARCH) /\ crashSite = "-"

\* C9 (unknown capability): dispatching a name that is not registered invokes
\* no handler, appends the error Observation for that name and goes to the
\* next loop test.
C9_UnknownCapability ==
    [][(pc = "exec" /\ pc' # "exec" /\ tool_call.name \notin RegisteredTools) =>
          /\ dispatched' = dispatched
          /\ events' = Append(events, ErrorEv(tool_call.name))
          /\ pc' = "loop_head"]_vars
C9_Witness ==
    /\ outcome = "unknown_tool" /\ pc = "loop_head"
    /\ LastEvent = ErrorEv(BOGUS) /\ dispatched = 0

\* C10 (dispatch timeout): the loop never waits for a tool longer than the
\* per-tool timeout.
C10_DispatchTimeout ==
    pc = "in_call" => now - callStart <= tool_timeout_seconds

\* C11 (model-backend failure): a request to the backend that raises gives
\* the loop the empty text and ends nothing; the extraction step that reads
\* the empty text appends the failure Observation only (no Action), calls no
\* handler and returns to the loop test, which enters the next iteration
\* whenever is_running holds and the budget allows.
C11_RequestRaises ==
    (pc = "llm" /\ pc' # "llm" /\ faults' > faults) =>
        /\ response' = TextResponse(NoText)
        /\ pc' = "extract"
        /\ events' = events /\ dispatched' = dispatched
C11_IterationAbandoned ==
    (pc = "extract" /\ pc' # "extract" /\ response = TextResponse(NoText)) =>
        /\ events' = Append(events, ExtractFailEv)
        /\ pc' = "loop_head"
        /\ dispatched' = dispatched
C11_AsksAgain ==
    (pc = "loop_head" /\ pc' # "loop_head"
     /\ is_running /\ iteration_count < max_iter) => pc' = "time_check"
C11_ModelBackendFailure ==
    [][C11_RequestRaises /\ C11_IterationAbandoned /\ C11_AsksAgain]_vars
C11_Witness ==
    /\ pc = "llm" /\ iteration_count = 2
    /\ faults = 1 /\ seen = {"llm_fail", "extract_fail"}
    /\ events = <<MessageEv, PlanEv, ExtractFailEv>>

\* C12 (summarization failure): when the request made by _summarize_context
\* raises, the run continues (start() is not left by that exception) with
\* the log it had.
C12_SummarizationFailure ==
    "summ_fail" \in seen => pc # "raised" /\ crashSite # "summ"

\* C13 (compaction shape): every compaction that changes the log removes a
\* non-empty prefix of it and leaves exactly one Summary followed by the
\* KeepTail most recent events in their order (KeepTail + 1 events).
C13_Step ==
    (pc = "summ" /\ events' # events) =>
        /\ Len(events) > KeepTail
        /\ events' = <<SummaryEv>> \o
                       SubSeq(events, Len(events) - KeepTail + 1, Len(events))
        /\ Len(events') = KeepTail + 1
C13_CompactionShape == [][C13_Step]_vars

\* C14 (event-log order): every step that changes the log either appends to
\* it (the log before is a prefix of the log after) or is the compaction,
\* which puts exactly one Summary in the place of a prefix of the log and
\* keeps the rest in its order.
C14_Step ==
    events' # events =>
        \/ /\ pc # "summ"
           /\ Len(events') > Len(events)
           /\ SubSeq(events', 1, Len(events)) = events
        \/ /\ pc = "summ"
           /\ Head(events') = SummaryEv
           /\ \E k \in 0..Len(events) :
                 Tail(events') = SubSeq(events, k + 1, Len(events))
C14_EventLogOrder == [][C14_Step]_vars
C14_Witness ==
    /\ "compacted" \in seen /\ pc = "returned"
    /\ Len(events) > KeepTail + 1
    /\ events[1] = SummaryEv /\ events[2] = PlanEv

\* C15 (run isolation): a step of one session changes neither the event log
\* and run state of another session nor the checklist of another session
\* that is running.
C15_Step ==
    \A s, t \in Sessions :
        (s # t /\ active_agents'[s] # active_agents[s]
               /\ active_agents[t].st = "running") =>
            /\ active_agents'[t] = active_agents[t]
            /\ files'[todo_file(t)] = files[todo_file(t)]
C15_RunIsolation == [][C15_Step]_vars

\* C17 (completion preserved across plan revisions): when the checklist is
\* derived again, an item is complete in the new checklist exactly when an
\* item of the same text was complete in the previous one.
WasDone(file, text) ==
    \E j \in 1..Len(file.items) :
        file.items[j].text = text /\ file.items[j].done
C17_Step ==
    \A s \in Sessions :
        (active_agents[s].st = "s_todo" /\ active_agents'[s].st = "running") =>
            \A i \in 1..Len(files'[todo_file(s)].items) :
                files'[todo_file(s)].items[i].done =
                    WasDone(files[todo_file(s)], files'[todo_file(s)].items[i].text)
C17_CompletionPreserved == [][C17_Step]_vars

\* C18 (empty plan keeps the checklist): deriving the checklist from a plan
\* with no extractable step leaves an existing checklist file as it was.
C18_Step ==
    \A s \in Sessions :
        (/\ active_agents[s].st = "s_todo" /\ active_agents'[s].st = "running"
         /\ steps(active_agents[s].plan) = <<>>
         /\ files[todo_file(s)].exists) =>
            files'[todo_file(s)] = files[todo_file(s)]
C18_EmptyPlanKeepsChecklist == [][C18_Step]_vars

\* C16 (stop() idempotence): a call of stop() made when the run is not in
\* progress (never started, ended, or already stopped) changes no field of
\* the agent, no event and sends no notification; and whatever the number of
\* calls, at most one stop notification is sent.
RunOver == pc \in {"new", "returned", "raised"} \/ "stop" \in seen
C16_Step ==
    /\ (stopCalls' # stopCalls /\ RunOver) =>
           /\ UNCHANGED <<agentFields, events, notes>>
           /\ sp' = "idle"
    /\ Count(notes', {"stop"}) <= 1
C16_StopIdempotence == [][C16_Step]_vars

\* C19 (final report content): every report that ends a run (completion,
\* budget exceeded, cancelled) holds the elapsed time, the iteration count,
\* the fraction and the percentage of the checklist completed, and the number
\* of files touched.
ReportFigures ==
    {"elapsed", "iterations", "todo_fraction", "todo_percent", "file_count"}
C19_FinalReportContent ==
    \A i \in 1..Len(notes) :
        notes[i] \in {"progress", "final", "stop"} =>
            ReportFigures \subseteq text_of(notes[i])

\* C20 (cancellation around the backend call): once stop() was called while
\* the request to the backend was in flight, no step appends an Action and
\* no step dispatches a tool.
Actions(log) == Cardinality({i \in 1..Len(log) : log[i].type = "Action"})
C20_Step ==
    "stop_in_flight" \in seen =>
        /\ Actions(events') = Actions(events)
        /\ dispatched' = dispatched
C20_CancellationAroundBackendCall == [][C20_Step]_vars

\* C21 (sequential dispatch): at most one capability invocation of the run is
\* in progress at any time, an iteration dispatches at most one action, and
\* every Action of the log is directly followed by its Observation before any
\* later Action (the last Action may still be waiting for its handler).
NotifySites ==
    {"s_notify", "t_notify", "t_report", "i_notify", "i_report", "m_notify", "m_report"}
LoopInvocations == IF pc \in NotifySites \cup {"in_call"} THEN 1 ELSE 0
StopInvocations == IF sp = "notify" THEN 1 ELSE 0
OneActionPerIteration ==
    /\ dispatched <= iteration_count
    /\ Actions(events) <= iteration_count
    /\ \A i \in ActionIdx :
          IF i < Len(events)
          THEN events[i + 1].type = "Observation" /\ events[i + 1].tool = events[i].tool
          ELSE pc \in {"exec", "in_call"}
C22_TestedBeforeIncrement ==
    /\ (pc = "time_check" /\ pc' # pc) =>
          IF Elapsed > max_time_seconds
          THEN /\ pc' = "t_notify"
               /\ UNCHANGED <<iteration_count, iterations, events, dispatched>>
          ELSE /\ pc' = "summ"
               /\ iteration_count' = iteration_count + 1
               /\ iterations' = iteration_count'
    /\ (iteration_count' > iteration_count) => (pc = "time_check" /\ ~(Elapsed > max_time_seconds))
C22_NothingAfterExpiry ==
    "time" \in seen =>
        /\ UNCHANGED <<iteration_count, iterations, events, dispatched, response>>
        /\ pc' \notin {"summ", "build", "llm", "extract", "exec", "in_call"}
C22_NotInterrupted ==
    (pc = "in_call" /\ Elapsed > max_time_seconds) =>
        /\ pc' \in {"in_call", "loop_head"}
        /\ pc' = "loop_head" => Len(events') > Len(events)
C22_Final ==
    (pc = "returned" /\ "time" \in seen /\ faults = 0) =>
        /\ ~is_running
        /\ Count(notes, {"time"}) = 1
        /\ Count(notes, {"progress"}) = 1
        /\ Count(notes, {"max", "final", "idle"}) = 0
C22_WallClockBudget ==
    /\ [][C22_TestedBeforeIncrement /\ C22_NothingAfterExpiry /\ C22_NotInterrupted]_vars
    /\ []C22_Final
C22_Witness ==
    /\ pc = "returned" /\ "time" \in seen /\ faults = 0
    /\ dispatched = 1 /\ iterations = 1 /\ max_iter = MaxIterBound
    /\ notes = <<"accepted", "time", "progress">>

\* C23 (compaction cadence): with auto_summarize_threshold = T > 0 the
\* iterations in which _summarize_context is called are exactly those whose
\* number is a positive multiple of T; an iteration that does not call it
\* leaves the log alone at that point, and with T = 0 no step ever removes
\* an event from the log.
Attempted == last_summary_iteration' = iteration_count \/ pc' = "raised"
C23_Step ==
    /\ (pc = "summ" /\ pc' # pc) =>
          /\ Attempted <=> (auto_summarize_threshold > 0
                            /\ iteration_count % auto_summarize_threshold = 0)
          /\ ~Attempted => events' = events
    /\ auto_summarize_threshold = 0 =>
          /\ Len(events') >= Len(events)
          /\ SubSeq(events', 1, Len(events)) = events
          /\ last_summary_iteration' = 0
C23_CompactionCadence == [][C23_Step]_vars
C23_Witness ==
    /\ auto_summarize_threshold = SummarizeEvery
    /\ pc = "build" /\ iteration_count = 2 * SummarizeEvery
    /\ last_summary_iteration = iteration_count

\* C24 (planning phase order): start() appends the Message, then sends the
\* "accepted" notification, then asks for the plan and appends the Plan, then
\* writes the checklist, and only then reaches the loop; the notification or
\* the checklist write failing still leads to the loop.
C24_Step ==
    /\ (pc = "new" /\ pc' # pc) =>
          pc' = "s_notify" /\ events' = <<MessageEv>> /\ notes' = <<>>
    /\ (pc = "s_notify" /\ pc' # pc) =>
          /\ pc' = "s_plan" /\ events' = events /\ files' = files
          /\ \/ notes' = Append(notes, "accepted")
             \/ notes' = notes /\ "notify_fail" \in seen'
    /\ (pc = "s_plan" /\ pc' # pc) =>
          \/ pc' = "s_todo" /\ events' = <<MessageEv, PlanEv>> /\ files' = files
          \/ pc' = "raised" /\ "plan_fail" \in seen'
    /\ (pc = "s_todo" /\ pc' # pc) =>
          /\ pc' = "loop_head" /\ events' = events /\ iteration_count' = 0
          /\ \/ files'[todo_file("-")] = _create_todo_from_plan(PlannerPlan)
             \/ files' = files /\ "todo_fail" \in seen'
    /\ pc' = "loop_head" => pc \in {"s_todo", "extract", "exec", "in_call", "loop_head"}
LoopNotes == SelectSeq(notes, LAMBDA n : n # "stop")
C24_InLoop ==
    pc \in BeforeIncrement \cup AfterIncrement \cup {"loop_head", "after_loop"} =>
        /\ Len(events) >= 2 /\ events[1] = MessageEv /\ events[2] = PlanEv
        /\ LoopNotes # <<>> => LoopNotes[1] = "accepted" \/ "notify_fail" \in seen
        /\ files[todo_file("-")].exists \/ "todo_fail" \in seen
C24_PlanningPhaseOrder == [][C24_Step]_vars /\ []C24_InLoop
C24_Witness ==
    /\ pc = "time_check" /\ iteration_count = 0
    /\ "notify_fail" \in seen /\ notes = <<>>
    /\ events = <<MessageEv, PlanEv>> /\ files[todo_file("-")].exists

\* C25 (run lifecycle): a run that has just appended its Plan, whether it is
\* the first run of its Agent or a later one, has iterations = 0 and a log
\* that holds its own Message and Plan and nothing else.
C25_RunLifecycle ==
    \A s \in Sessions :
        active_agents[s].st = "s_todo" =>
            /\ active_agents[s].iterations = 0
            /\ active_agents[s].events = <<MessageEv, PlanEv>>

\* C26 (first checklist): the checklist written from a plan that has numbered
\* lines holds one incomplete item per numbered line, in plan order, with the
\* line's number and text, and nothing else; from a plan without numbered
\* lines it holds one incomplete item per line that is neither blank nor a
\* heading (a "#" line or the goal line).
Headings == {"#", "goal"}
IsNumbered(l) == l \in {"1.", "2.", "3.", "4."}
ChecklistOf(plan) ==
    LET numbered == SelectSeq(plan, IsNumbered)
        others == SelectSeq(plan, LAMBDA l : l # "blank" /\ l \notin Headings)
        lines == IF \E i \in 1..Len(plan) : IsNumbered(plan[i]) THEN numbered ELSE others
    IN  [i \in 1..Len(lines) |-> [text |-> lines[i], done |-> FALSE]]
C26_Step ==
    \A s \in Sessions :
        (active_agents[s].st = "s_todo" /\ active_agents'[s].st = "running") =>
            /\ files'[todo_file(s)].exists
            /\ files'[todo_file(s)].items = ChecklistOf(active_agents[s].plan)
C26_FirstChecklist == [][C26_Step]_vars
C26_Witness ==
    /\ active_agents[CliAgent].st = "running"
    /\ active_agents[CliAgent].plan = <<"prose", "2.", "1.">>
    /\ files[todo_file(CliAgent)].items = <<Item("2."), Item("1.")>>

\* C27 (memory notification): every return from a dispatched handler, by a
\* result or by an exception, is followed in the same step by exactly one
\* call of update_from_observation, the Observation being appended.
C27_Step ==
    (pc = "in_call" /\ pc' # pc) =>
        /\ memUpdates' = memUpdates + 1
        /\ Len(events') > Len(events)
C27_MemoryNotification == [][C27_Step]_vars

\* C28 (one Observation per Action): an Action of the log is followed by one
\* Observation for it and no second one; in particular the Observation of a
\* result is never followed by an error Observation of the same action.
C28_OneObservationPerAction ==
    \A i \in ActionIdx :
        i + 2 <= Len(events) =>
            ~(/\ events[i + 1].type = "Observation"
              /\ events[i + 2].type = "Observation"
              /\ events[i + 2].tool = events[i].tool)

\* C29 (prompt building has no side effect): the step of _build_prompt leaves
\* the event log, the iteration counters and is_running as they were, so the
\* prompt built again from the state it leaves is the prompt it built.
C29_Step ==
    (pc = "build" /\ pc' # pc) =>
        /\ UNCHANGED <<events, iteration_count, iterations, last_summary_iteration, is_running>>
        /\ UNCHANGED <<files, notes, dispatched, memUpdates>>
        /\ \A m \in {"state"}, t \in {RegisteredTools} :
              _build_prompt(events', m, t) = _build_prompt(events, m, t)
ValidAction(c) ==
    /\ _extract_tool_call(c) # NoCall
    /\ _extract_tool_call(c).name \in RegisteredTools \ {IDLE}
    /\ _extract_tool_call(c).params # "bad"
C30_Step ==
    /\ (pc = "llm" /\ pc' # pc /\ faults' = faults) =>
          \E c \in Responses : response' = TextResponse(c)
    /\ (pc = "extract" /\ pc' # pc /\ response.kind = "str" /\ ValidAction(response.text)) =>
          /\ pc' = "exec"
          /\ events' = Append(events, ActionEv(_extract_tool_call(response.text).name))
C30_RawTextPayload == [][C30_Step]_vars

\* C31 (the run always ends stopped): once start() has returned or raised,
\* is_running is false.
C31_RunEndsStopped ==
    pc \in {"returned", "raised"} => ~is_running

\* C32 (counter invariant): in every state of a run
\* 0 <= last_summary_iteration <= iterations <= max_iterations, and the
\* number of handler calls made so far is at most iterations.
C32_CounterInvariant ==
    /\ 0 <= last_summary_iteration
    /\ last_summary_iteration <= iterations
    /\ iterations <= max_iter
    /\ dispatched <= iterations
C32_Witness ==
    /\ pc = "in_call" /\ max_iter = MaxIterBound
    /\ iterations = max_iter /\ last_summary_iteration = iterations
    /\ dispatched = iterations

\* C33 (termination): when every call the loop waits for returns or raises,
\* start() ends (it returns or an exception leaves it), and the iteration
\* counter never exceeds max_iterations.
Ended == pc \in {"returned", "raised"}
C33_Termination == <>Ended /\ [](iteration_count <= max_iter)
C33_Witness ==
    /\ pc = "returned" /\ max_iter = MaxIterBound /\ iterations = max_iter
    /\ "extract_fail" \in seen /\ "tool_ok" \in seen


\* a step of _summarize_context that replaces the log (lines 247-262)
Compacting ==
    /\ pc = "summ" /\ pc' = "build"
    /\ SummarizeDue /\ Len(events) >= KeepTail

\* C34: Summary coverage. When a compaction replaces the older part of the
\* log by a new Summary, every event of that part, an earlier Summary
\* included, is part of the text from which the new Summary is produced, so
\* that every event ever appended is either still in the log or covered by
\* the current Summary, directly or through an earlier one.
C34_Step ==
    Compacting =>
        \A i \in 1..Len(older_events(events)) : summary_prompt(events)[i] # <<>>
C34_SummaryCoverage == [][C34_Step]_vars

\* C35: compaction never grows the log. No step of _summarize_context leaves
\* more events than it found, and on a log with no event older than the
\* KeepTail most recent ones it changes nothing and sends no request to the
\* backend (so no request of it can fail).
C35_Step ==
    pc = "summ" =>
        /\ Len(events') <= Len(events)
        /\ Len(events) <= KeepTail =>
              /\ events' = events
              /\ "compacted" \in seen' <=> "compacted" \in seen
              /\ "summ_fail" \in seen' <=> "summ_fail" \in seen
C35_NeverGrows == [][C35_Step]_vars

\* C36: compaction accepts every event kind. On every log of at least
\* KeepTail events, whatever its older part holds (an Observation recorded
\* with an error and no result, an earlier Summary), _summarize_context
\* builds its request: no exception of that code ends the run.
C36_AcceptsEveryKind == ~(pc = "raised" /\ "summ_keyerror" \in seen)

\* stop() was called and never found is_running set, and is_running is set
\* now: since is_running is set by start() only and the loop never sets it
\* again once it cleared it, every such call came before start() set it
StopBeforeStart == stopCalls > 0 /\ "stop" \notin seen /\ is_running

\* C37: no lost stop request. A stop request that reaches the agent after
\* its construction (and registration) and before the agent thread ran the
\* beginning of start() is honoured: the run executes no iteration.
C37_NoLostStop == StopBeforeStart => iterations = 0

\* C38: one run per session. At any time at most one run of a session_id is
\* active (its thread has not left start()), and that run is the one
\* registered in active_agents, so that a stop request for the session
\* reaches every run started under it.
C38_OneRunPerSession ==
    /\ Cardinality(Active) <= 1
    /\ \A i \in Active : i = registered

\* C39: question/answer pairing. Whatever message_ask_handler returns for a
\* question belongs to that question: the question was put on the session
\* queue, and a user response returned for it was submitted after that, so
\* never while no question was pending or before the question was asked.
C39_Pairing ==
    \A k \in 1..Len(answers) :
        /\ answers[k].q \in session_queue
        /\ answers[k].kind = "response" =>
              answers[k].q \in submittedAt[answers[k].value]
====
